---- MODULE Spec2Model ----
(***************************************************************************)
(* Model of generate_catalogue.py: the catalogue generator of galaxy-tips. *)
(*                                                                         *)
(* A text (file content, file path, title, body, output line) is a         *)
(* sequence of atoms.  An atom is a TLA+ string standing for exactly the   *)
(* characters it spells: a single character ("<", "|", " ", ">") or a run  *)
(* of word characters ("img", "h1", "html", "w").  The text is the         *)
(* concatenation of its atoms, and every regular expression of the source  *)
(* is translated to an operator that matches on the atoms as the           *)
(* expression matches on the characters.                                   *)
(***************************************************************************)
EXTENDS Integers, Sequences, FiniteSets, TLC

VARIABLES
    \* ---- one run of main() ----
    pc,             \* position in main(): list, loop, issues, combine, write, done, raised
    git_installed,  \* whether the git executable exists on this system
    branch,         \* the branch parse_tips_from_branch is working on
    tip_files,      \* parse_tips_from_branch: the files still to visit
    tips,           \* parse_tips_from_branch: the dict built so far
    main_tips,      \* main(): result for origin/main
    dev_tips,       \* main(): result for origin/dev
    github_issues,  \* main(): result of get_github_issues()
    all_tips,       \* main(): the combined dict
    file,           \* CATALOGUE.md: <<>> while unwritten, else its lines
    raised,         \* the uncaught exception that ended the run, or NoException
    last_path,      \* parse_tips_from_branch: file_path of the last turn of the loop
    last_content,   \* parse_tips_from_branch: the content read for that file
    \* ---- the text functions applied to one input ----
    text_in,        \* the input text (a tip file's content, an issue's text)
    text_pc,        \* input, tip, issue, rendered
    text_entry,     \* the TipInfo built from text_in
    text_out        \* generate_catalogue's lines for that single entry

vars == <<pc, git_installed, branch, tip_files, tips, main_tips, dev_tips,
          github_issues, all_tips, file, raised, last_path, last_content,
          text_in, text_pc, text_entry, text_out>>

mainVars == <<pc, git_installed, branch, tip_files, tips, main_tips, dev_tips,
              github_issues, all_tips, file, raised, last_path, last_content>>

textVars == <<text_in, text_pc, text_entry, text_out>>

-----------------------------------------------------------------------------
(* Characters and character classes.                                        *)

\* \s of the re module, on atoms
IsSpace(a) == a \in {" ", "\n", "\t"}

DigitAtoms == <<"0", "1", "2", "3", "4", "5", "6", "7", "8", "9">>

\* \d of the re module, on atoms
IsDigit(a) == \E d \in 1..10 : DigitAtoms[d] = a

\* the runs of letters the inputs are built from; each is one atom
LetterAtoms == {"img", "IMG", "video", "VIDEO", "audio", "script", "style", "h1", "H1",
                "p", "b", "src", "w", "v", "x", "y", "A", "B", "C", "py", "image",
                "html", "bak", "md", "txt", "tips", "docs", "readme", "sub",
                "tip", "Tip", "request", "Add", "dark", "mode", "Bug",
                "https", "github", "gitlab", "com", "git", "owner", "repo",
                "No", "title", "found", "Tip", "Title", "Body", "State",
                "Galaxy", "Tips", "Catalogue", "production", "draft", "requested"}

\* \w of the re module, on atoms
IsWord(a) == a \in LetterAtoms \/ IsDigit(a) \/ a = "_"

\* re.IGNORECASE: the lower-case form of an atom
Lower(a) ==
    CASE a = "IMG" -> "img"
      [] a = "VIDEO" -> "video"
      [] a = "H1" -> "h1"
      [] a = "Tip" -> "tip"
      [] OTHER -> a

-----------------------------------------------------------------------------
(* Sequence helpers.  A scan over the characters of a text is written with  *)
(* bounded quantifiers and CHOOSE, and a text is assembled from its pieces  *)
(* by halving, so that the depth of evaluation does not grow with the       *)
(* length of the text (a summary has more than 100 characters).             *)

\* the least element of a non-empty set of integers
Min(S) == CHOOSE x \in S : \A y \in S : x <= y

\* the least j >= i with s[j] = a, or 0
FirstAt(s, i, a) ==
    IF \E j \in i..Len(s) : s[j] = a
    THEN CHOOSE j \in i..Len(s) : s[j] = a /\ \A k \in i..(j - 1) : s[k] # a
    ELSE 0

\* the greatest j <= i with s[j] = a, or 0
LastAt(s, i, a) ==
    IF \E j \in 1..i : s[j] = a
    THEN CHOOSE j \in 1..i : s[j] = a /\ \A k \in (j + 1)..i : s[k] # a
    ELSE 0

\* whether the atoms of lit stand in s from position i on, compared in lower case
MatchesAt(s, i, lit) ==
    /\ i >= 1
    /\ i + Len(lit) - 1 <= Len(s)
    /\ \A k \in 1..Len(lit) : Lower(s[i + k - 1]) = lit[k]

\* the least j >= i where lit stands in s, or 0
FirstLit(s, i, lit) ==
    IF \E j \in i..Len(s) : MatchesAt(s, j, lit)
    THEN CHOOSE j \in i..Len(s) :
             MatchesAt(s, j, lit) /\ \A k \in i..(j - 1) : ~MatchesAt(s, k, lit)
    ELSE 0

\* the least j >= i with flags[j], or Len(flags) + 1; i itself when beyond the end
FirstFlag(flags, i) ==
    IF i > Len(flags) THEN i
    ELSE CHOOSE j \in i..(Len(flags) + 1) :
             /\ j = Len(flags) + 1 \/ flags[j]
             /\ \A k \in i..(j - 1) : ~flags[k]

\* the end of the run of white space (of word characters, of digits, of other
\* than white space) that starts at i: the first position after it
SkipWhileSpace(s, i) == FirstFlag([k \in 1..Len(s) |-> ~IsSpace(s[k])], i)

SkipWhileWord(s, i) == FirstFlag([k \in 1..Len(s) |-> ~IsWord(s[k])], i)

SkipWhileDigit(s, i) == FirstFlag([k \in 1..Len(s) |-> ~IsDigit(s[k])], i)

SkipWhileNonSpace(s, i) == FirstFlag([k \in 1..Len(s) |-> IsSpace(s[k])], i)

\* the greatest j <= i with s[j] no white space, or 0
LastNonSpace(s, i) ==
    IF \E j \in 1..i : ~IsSpace(s[j])
    THEN CHOOSE j \in 1..i : ~IsSpace(s[j]) /\ \A k \in (j + 1)..i : IsSpace(s[k])
    ELSE 0

RECURSIVE FlatRange(_, _, _)
\* parts[lo] \o ... \o parts[hi]
FlatRange(parts, lo, hi) ==
    IF lo > hi THEN <<>>
    ELSE IF lo = hi THEN parts[lo]
    ELSE LET mid == (lo + hi) \div 2
         IN  FlatRange(parts, lo, mid) \o FlatRange(parts, mid + 1, hi)

\* the concatenation of a sequence of texts
Flatten(parts) == FlatRange(parts, 1, Len(parts))

\* the positions i with flags[i], ascending
Positions(flags) == SelectSeq([i \in 1..Len(flags) |-> i], LAMBDA i : flags[i])

\* str.strip()
Strip(s) ==
    LET a == SkipWhileSpace(s, 1)
        b == LastNonSpace(s, Len(s))
    IN  IF a > b THEN <<>> ELSE SubSeq(s, a, b)

\* a character that is no white space, or the first of a run of white space
RunStart(s, i) == ~IsSpace(s[i]) \/ i = 1 \/ ~IsSpace(s[i - 1])

\* re.sub(r'\s+', ' ', s): each run of white space becomes one space
CollapseRuns(s) ==
    LET keep == Positions([i \in 1..Len(s) |-> RunStart(s, i)])
    IN  [r \in 1..Len(keep) |-> IF IsSpace(s[keep[r]]) THEN " " ELSE s[keep[r]]]

\* re.sub(r'\s+', ' ', s.strip())
CollapseWhitespace(s) == CollapseRuns(Strip(s))

\* the first character of a maximal run of characters that are no white space
WordStart(s, i) == ~IsSpace(s[i]) /\ (i = 1 \/ IsSpace(s[i - 1]))

\* str.split(): the maximal runs of non-space characters, in order
Split(s) ==
    LET starts == Positions([i \in 1..Len(s) |-> WordStart(s, i)])
    IN  [r \in 1..Len(starts) |->
            SubSeq(s, starts[r], SkipWhileNonSpace(s, starts[r]) - 1)]

\* ' '.join(ws)
Join(ws) ==
    Flatten([i \in 1..Len(ws) |-> IF i < Len(ws) THEN ws[i] \o <<" ">> ELSE ws[i]])

RECURSIVE LeftmostFrom(_, _, _)
\* of the matches ends[i] > 0 (a match from i to ends[i]), those a scan from
\* position p on finds: the leftmost one, then the leftmost after its end, ...
LeftmostFrom(ends, cands, p) ==
    LET rest == {i \in cands : i >= p}
    IN  IF rest = {} THEN {}
        ELSE LET m == Min(rest)
             IN  {m} \cup LeftmostFrom(ends, cands, ends[m] + 1)

\* re.sub(pattern, repl, s): ends[i] is the end of the pattern's match anchored
\* at i (0: none), repls[i] what replaces that match
Sub(s, ends, repls) ==
    LET starts == LeftmostFrom(ends, {i \in 1..Len(s) : ends[i] > 0}, 1)
    IN  Flatten([i \in 1..Len(s) |->
            IF i \in starts THEN repls[i]
            ELSE IF \E m \in starts : m < i /\ i <= ends[m] THEN <<>>
            ELSE <<s[i]>>])

\* re.sub with the same replacement for every match
SubConst(s, ends, repl) == Sub(s, ends, [i \in 1..Len(s) |-> repl])

-----------------------------------------------------------------------------
(* The regular expressions of extract_html_body and filter_media_tags.      *)

\* r'<tag[^>]*>' anchored at i, tag one of tags, IGNORECASE: the position of the
\* closing '>' of the match, or 0
OpenTagEnd(s, i, tags) ==
    IF s[i] = "<" /\ i + 1 <= Len(s) /\ Lower(s[i + 1]) \in tags
    THEN FirstAt(s, i + 2, ">")
    ELSE 0

\* re.sub(r'<img[^>]*>', repl, s, flags=re.IGNORECASE)
SubOpenTag(s, tags, repl) ==
    SubConst(s, [i \in 1..Len(s) |-> OpenTagEnd(s, i, tags)], repl)

\* r'<(tag)[^>]*>.*?</\1>' anchored at i, DOTALL | IGNORECASE: the position of the
\* last character of the match, or 0
ElementEnd(s, i, tags) ==
    LET j == OpenTagEnd(s, i, tags)
    IN  IF j = 0 THEN 0
        ELSE LET k == FirstLit(s, j + 1, <<"<", "/", Lower(s[i + 1]), ">">>)
             IN  IF k = 0 THEN 0 ELSE k + 3

\* re.sub(r'<video[^>]*>.*?</video>', repl, s, flags=re.DOTALL | re.IGNORECASE)
SubElement(s, tags, repl) ==
    SubConst(s, [i \in 1..Len(s) |-> ElementEnd(s, i, tags)], repl)

\* r'<[^>]+>' anchored at i: the position of the closing '>', or 0
AnyTagEnd(s, i) ==
    IF s[i] = "<"
    THEN LET j == FirstAt(s, i + 1, ">")
         IN  IF j >= i + 2 THEN j ELSE 0
    ELSE 0

\* re.sub(r'<[^>]+>', ' ', s)
StripTags(s) == SubConst(s, [i \in 1..Len(s) |-> AnyTagEnd(s, i)], <<" ">>)

\* the 50 of "Truncate to 50 words"
WordLimit == 50

Ellipsis == <<"...">>

\* words = text.split(); if len(words) > 50: text = ' '.join(words[:50]) + '...'
TruncateWords(text) ==
    LET words == Split(text)
    IN  IF Len(words) > WordLimit
        THEN Join(SubSeq(words, 1, WordLimit)) \o Ellipsis
        ELSE text

\* the placeholders extract_html_body writes
HtmlImage == <<"<", "image", ">">>
HtmlVideo == <<"<", "video", ">">>
HtmlAudio == <<"<", "audio", ">">>

\* extract_html_body up to and including the whitespace clean-up
CleanHtml(content) ==
    LET c1 == SubElement(content, {"script", "style"}, <<>>)
        c2 == SubOpenTag(c1, {"img"}, HtmlImage)
        c3 == SubElement(c2, {"video"}, HtmlVideo)
        c4 == SubElement(c3, {"audio"}, HtmlAudio)
        c5 == StripTags(c4)
    IN  CollapseWhitespace(c5)

extract_html_body(content) == TruncateWords(CleanHtml(content))

\* the placeholders filter_media_tags writes, each one atom
ImageMark == <<"&lt;image&gt;">>
VideoMark == <<"&lt;video&gt;">>
AudioMark == <<"&lt;audio&gt;">>

\* the markdown image expression (bang, bracketed alt text without a closing
\* bracket, parenthesised non-empty url without a closing parenthesis) anchored
\* at i: the position of the closing parenthesis, or 0
MarkdownImageEnd(s, i) ==
    IF s[i] = "!" /\ i + 1 <= Len(s) /\ s[i + 1] = "["
    THEN LET j == FirstAt(s, i + 2, "]")
         IN  IF j > 0 /\ j + 1 <= Len(s) /\ s[j + 1] = "("
             THEN LET k == FirstAt(s, j + 2, ")")
                  IN  IF k >= j + 3 THEN k ELSE 0
             ELSE 0
    ELSE 0

\* re.sub of the markdown image expression by '&lt;image&gt;'
SubMarkdownImage(s) ==
    SubConst(s, [i \in 1..Len(s) |-> MarkdownImageEnd(s, i)], ImageMark)

\* the backquote character, which a TLA+ string cannot hold
BackQuote == "BACKQUOTE"

Fence == <<BackQuote, BackQuote, BackQuote>>

\* three backquotes and \w*\s* after them, anchored at i: the end of the match, or 0
FenceTailEnd(s, i) ==
    IF MatchesAt(s, i, Fence)
    THEN SkipWhileSpace(s, SkipWhileWord(s, i + 3)) - 1
    ELSE 0

\* three backquotes anchored at i: the end of the match, or 0
FenceEnd(s, i) == IF MatchesAt(s, i, Fence) THEN i + 2 ELSE 0

\* the two passes that remove code block markers: three backquotes with \w*\s*
\* after them, then three backquotes alone
RemoveFences(s) ==
    LET t == SubConst(s, [i \in 1..Len(s) |-> FenceTailEnd(s, i)], <<>>)
    IN  SubConst(t, [i \in 1..Len(t) |-> FenceEnd(t, i)], <<>>)

\* backquote, one or more characters other than a backquote, backquote,
\* anchored at i: the position of the closing backquote, or 0
InlineCodeEnd(s, i) ==
    IF s[i] = BackQuote
    THEN LET j == FirstAt(s, i + 1, BackQuote)
         IN  IF j >= i + 2 THEN j ELSE 0
    ELSE 0

\* the pass that removes inline code markers: the match is replaced by its group 1
SubInlineCode(s) ==
    LET ends == [i \in 1..Len(s) |-> InlineCodeEnd(s, i)]
    IN  Sub(s, ends, [i \in 1..Len(s) |-> SubSeq(s, i + 1, ends[i] - 1)])

filter_media_tags(text) ==
    LET t1 == SubOpenTag(text, {"img"}, ImageMark)
        t2 == SubElement(t1, {"video"}, VideoMark)
        t3 == SubElement(t2, {"audio"}, AudioMark)
        t4 == SubMarkdownImage(t3)
        t5 == RemoveFences(t4)
    IN  SubInlineCode(t5)

-----------------------------------------------------------------------------
(* extract_tip_info.                                                        *)

\* Path(file_path).name: the last component of the path
PathName(file_path) ==
    LET p == IF file_path # <<>> /\ file_path[Len(file_path)] = "/"
             THEN SubSeq(file_path, 1, Len(file_path) - 1)
             ELSE file_path
    IN  SubSeq(p, LastAt(p, Len(p), "/") + 1, Len(p))

\* re.match(r'(\d+)\.html', filename): the length of group 1, or 0 when the
\* expression does not match at the start of the name
TipNumberDigits(filename) ==
    LET d == SkipWhileDigit(filename, 1) - 1
    IN  IF /\ d >= 1
           /\ d + 2 <= Len(filename)
           /\ filename[d + 1] = "."
           /\ filename[d + 2] = "html"
        THEN d
        ELSE 0

DigitValue(a) == (CHOOSE d \in 1..10 : DigitAtoms[d] = a) - 1

RECURSIVE ParseIntUpTo(_, _)
\* int() of the first n atoms of ds, all digits
ParseIntUpTo(ds, n) ==
    IF n = 0 THEN 0
    ELSE 10 * ParseIntUpTo(ds, n - 1) + DigitValue(ds[n])

RECURSIVE IntStr(_)
\* str() of a natural number
IntStr(n) ==
    IF n < 10 THEN <<DigitAtoms[n + 1]>>
    ELSE IntStr(n \div 10) \o <<DigitAtoms[(n % 10) + 1]>>

NoTitle == <<"No", " ", "title", " ", "found">>

\* whether '<' and a tag name of names stand at j
OpenTagAt(s, j, names) == j + 1 <= Len(s) /\ s[j] = "<" /\ s[j + 1] \in names

\* whether '</', a tag name of names and '>' stand at j
CloseTagAt(s, j, names) ==
    /\ j + 3 <= Len(s)
    /\ s[j] = "<" /\ s[j + 1] = "/" /\ s[j + 2] \in names /\ s[j + 3] = ">"

\* the least j >= i where an opening (a closing) tag of names stands, or 0
FirstOpenTag(s, i, names) ==
    LET j == FirstFlag([k \in 1..Len(s) |-> OpenTagAt(s, k, names)], i)
    IN  IF j > Len(s) THEN 0 ELSE j

FirstCloseTag(s, i, names) ==
    LET j == FirstFlag([k \in 1..Len(s) |-> CloseTagAt(s, k, names)], i)
    IN  IF j > Len(s) THEN 0 ELSE j

\* re.search(r'<h1[^>]*>\s*(.*?)\s*</h1>', content, re.DOTALL) and the title
\* made of its group 1, the heading's tag name being one of names
HeadingTitle(content, names) ==
    LET i == FirstOpenTag(content, 1, names)
        j == IF i = 0 THEN 0 ELSE FirstAt(content, i + 2, ">")
        k == IF j = 0 THEN 0 ELSE FirstCloseTag(content, j + 1, names)
    IN  IF k = 0 THEN NoTitle
        ELSE CollapseWhitespace(SubSeq(content, j + 1, k - 1))

\* the title lines of extract_tip_info: the expression has no IGNORECASE flag
ExtractTitle(content) == HeadingTitle(content, {"h1"})

\* filename matched: whether extract_tip_info returns (and does not raise ValueError)
TipInfoOk(file_path) == TipNumberDigits(PathName(file_path)) > 0

\* extract_tip_info's result when it returns
extract_tip_info(content, file_path) ==
    LET filename == PathName(file_path)
    IN  [number |-> ParseIntUpTo(filename, TipNumberDigits(filename)),
         title  |-> ExtractTitle(content),
         body   |-> filter_media_tags(extract_html_body(content))]

TipInfo(number, title, body, state) ==
    [number |-> number, title |-> title, body |-> body, state |-> state]

-----------------------------------------------------------------------------
(* get_github_issues: the items of the tracker's answer.                    *)

TipRequestPrefix == <<"[", "tip", " ", "request", "]">>

\* re.match(r'^\s*\[tip request\]', title, re.IGNORECASE)
IsTipRequest(title) == MatchesAt(title, SkipWhileSpace(title, 1), TipRequestPrefix)

\* re.sub(r'^\s*\[tip request\]\s*', '', title, flags=re.IGNORECASE).strip()
CleanTitle(title) ==
    LET p == SkipWhileSpace(title, 1)
        q == SkipWhileSpace(title, p + Len(TipRequestPrefix))
    IN  IF MatchesAt(title, p, TipRequestPrefix)
        THEN Strip(SubSeq(title, q, Len(title)))
        ELSE Strip(title)

\* issue.get('body', '') or '': the tracker gives null for an empty body
BodyOrEmpty(issue) == IF issue.body.null THEN <<>> ELSE issue.body.text

\* the body lines of the loop: collapse whitespace, filter, truncate
IssueBodyFiltered(body) == filter_media_tags(CollapseWhitespace(body))

IssueBody(body) == TruncateWords(IssueBodyFiltered(body))

RECURSIVE TipIssuesFrom(_, _)
\* the loop over issues_data, from item i on
TipIssuesFrom(issues_data, i) ==
    IF i > Len(issues_data) THEN <<>>
    ELSE LET issue == issues_data[i]
         IN  (IF IsTipRequest(issue.title)
              THEN <<TipInfo(0, CleanTitle(issue.title), IssueBody(BodyOrEmpty(issue)),
                             "requested")>>
              ELSE <<>>) \o TipIssuesFrom(issues_data, i + 1)

TipIssues(issues_data) == TipIssuesFrom(issues_data, 1)

-----------------------------------------------------------------------------
(* Python dicts: the pairs <<key, value>> in insertion order.  A key is an  *)
(* int or a str, told apart as isinstance(key, int) does.                   *)

IntKey(n) == [int |-> TRUE, val |-> n]

\* f"issue_{issue_counter}"
IssueKey(i) == [int |-> FALSE, val |-> i]

DictKeys(d) == {d[i].key : i \in 1..Len(d)}

DictGet(d, k) == d[CHOOSE i \in 1..Len(d) : d[i].key = k].val

\* d[k] = v
DictSet(d, k, v) ==
    IF k \in DictKeys(d)
    THEN [i \in 1..Len(d) |-> IF d[i].key = k THEN [key |-> k, val |-> v] ELSE d[i]]
    ELSE Append(d, [key |-> k, val |-> v])

RECURSIVE DictUpdateFrom(_, _, _)
DictUpdateFrom(d, e, i) ==
    IF i > Len(e) THEN d
    ELSE DictUpdateFrom(DictSet(d, e[i].key, e[i].val), e, i + 1)

\* d.update(e)
DictUpdate(d, e) == DictUpdateFrom(d, e, 1)

-----------------------------------------------------------------------------
(* generate_catalogue.                                                      *)

\* text.replace('|', '\\|')
EscapePipes(s) ==
    Flatten([i \in 1..Len(s) |-> IF s[i] = "|" THEN <<"\\", "|">> ELSE <<s[i]>>])

Cell == <<" ", "|", " ">>

HeaderLines ==
    << <<"#", " ", "Galaxy", " ", "Tips", " ", "Catalogue">>,
       <<>>,
       <<"|", " ", "Tip", " ", "#">> \o Cell \o <<"Title">> \o Cell \o <<"Body">>
           \o Cell \o <<"State", " ", "|">>,
       <<"|-------|-------|------|-------|">> >>

\* f"| {tip_num} | {title} | {body} | {tip.state} |"
NumberedRow(tip_num, tip) ==
    <<"|", " ">> \o IntStr(tip_num) \o Cell \o EscapePipes(tip.title) \o Cell
        \o EscapePipes(tip.body) \o Cell \o <<tip.state, " ", "|">>

\* f"|  | {title} | {body} | {tip.state} |"
IssueRow(tip) ==
    <<"|", " ">> \o Cell \o EscapePipes(tip.title) \o Cell
        \o EscapePipes(tip.body) \o Cell \o <<tip.state, " ", "|">>

RECURSIVE SortedSeq(_)
\* sorted(S) for a set of integers
SortedSeq(S) ==
    IF S = {} THEN <<>>
    ELSE LET m == CHOOSE x \in S : \A y \in S : x <= y
         IN  <<m>> \o SortedSeq(S \ {m})

RECURSIVE ReverseSeq(_)
ReverseSeq(q) == IF q = <<>> THEN <<>> ELSE Append(ReverseSeq(Tail(q)), Head(q))

\* (mutant) the numbered rows written in descending order
NumberedOrderDescending(numbered_keys) == ReverseSeq(SortedSeq(numbered_keys))

\* the order in which the numbered rows are written
NumberedOrder(numbered_keys) == SortedSeq(numbered_keys)

\* the two lists generate_catalogue splits all_tips into
NumberedTips(d) == SelectSeq(d, LAMBDA e : e.key.int)

IssueTips(d) == SelectSeq(d, LAMBDA e : ~e.key.int)

\* the lines of the catalogue, the four of the header first
CatalogueLines(d) ==
    LET numbered == NumberedTips(d)
        issues   == IssueTips(d)
        order    == NumberedOrder({k.val : k \in DictKeys(numbered)})
    IN  HeaderLines
        \o [i \in 1..Len(order) |->
               NumberedRow(order[i], DictGet(numbered, IntKey(order[i])))]
        \o [i \in 1..Len(issues) |-> IssueRow(issues[i].val)]

\* "\n".join(content) + "\n"
generate_catalogue(d) ==
    LET lines == CatalogueLines(d)
    IN  Flatten([i \in 1..Len(lines) |-> lines[i] \o <<"\n">>])

-----------------------------------------------------------------------------
(* The external commands and what they can answer.                          *)

\* the most files a branch lists, and the most items the tracker returns
MaxFiles == 2
MaxIssues == 2

\* every path a branch may hold, in the order git ls-tree prints paths
RepoPaths ==
    << <<"docs", "/", "3", ".", "html">>,
       <<"tips", "/", "0", "1", ".", "html">>,
       <<"tips", "/", "1", ".", "html">>,
       <<"tips", "/", "1", ".", "html", ".", "bak">>,
       <<"tips", "/", "2", ".", "html">>,
       <<"tips", "/", "readme", ".", "md">> >>

\* a tip file with the heading t
TipFile(t) ==
    <<"<", "h1", ">", t, "<", "/", "h1", ">", "<", "p", ">", "w", "<", "/", "p", ">">>

\* what git show prints for a file: empty, or a tip with heading A, B or C
FileContents == {<<>>, TipFile("A"), TipFile("B"), TipFile("C")}

\* the outcome of one command: its exit status and its standard output
Outcome(rc, stdout) == [rc |-> rc, stdout |-> stdout]

\* git ls-tree -r --name-only: the paths, one per line, each line ended by '\n',
\* split at '\n' (the last piece is empty); or exit status 128 for no such branch
LsTreeOutcomes ==
    {Outcome(0, SelectSeq(RepoPaths, LAMBDA f : f \in S) \o << <<>> >>) :
        S \in {T \in SUBSET {RepoPaths[i] : i \in 1..Len(RepoPaths)} :
                  Cardinality(T) <= MaxFiles}}
    \cup {Outcome(128, <<>>)}

GitShowOutcomes == {Outcome(0, c) : c \in FileContents} \cup {Outcome(128, <<>>)}

RemoteUrls ==
    { <<"https", ":", "/", "/", "github", ".", "com", "/", "owner", "/", "repo", ".", "git">>,
      <<"git", "@", "github", ".", "com", ":", "owner", "/", "repo", ".", "git">>,
      <<"https", ":", "/", "/", "github", ".", "com", "/", "owner">>,
      <<"https", ":", "/", "/", "gitlab", ".", "com", "/", "owner", "/", "repo">> }

RemoteOutcomes == {Outcome(0, u \o <<"\n">>) : u \in RemoteUrls} \cup {Outcome(2, <<>>)}

Issue(title, null, text) == [title |-> title, body |-> [null |-> null, text |-> text]]

\* the open items the tracker may hold
IssuePool ==
    { Issue(<<"[", "tip", " ", "request", "]", " ", "Add", " ", "dark", " ", "mode">>,
            FALSE, <<"w", "\n", "x">>),
      Issue(<<" ", "[", "Tip", " ", "request", "]", "Add">>, TRUE, <<>>),
      Issue(<<"Bug", " ", "[", "tip", " ", "request", "]">>, FALSE, <<"y">>) }

RECURSIVE SeqsUpTo(_, _)
\* the sequences over S of length at most n
SeqsUpTo(S, n) ==
    IF n = 0 THEN {<<>>}
    ELSE LET shorter == SeqsUpTo(S, n - 1)
         IN  shorter \cup {Append(q, x) : q \in shorter, x \in S}

\* gh issue list --json: found or not, exit status, and on status 0 a JSON array
\* of items or text that is no JSON
GhOutcomes ==
    {[found |-> TRUE, rc |-> 0, json |-> TRUE, data |-> d] : d \in SeqsUpTo(IssuePool, MaxIssues)}
    \cup {[found |-> TRUE, rc |-> 0, json |-> FALSE, data |-> <<>>],
          [found |-> TRUE, rc |-> 1, json |-> FALSE, data |-> <<>>],
          [found |-> FALSE, rc |-> 0, json |-> FALSE, data |-> <<>>]}

-----------------------------------------------------------------------------
(* get_git_files, get_file_content_from_branch, get_github_issues.          *)

TipsPrefix == <<"tips", "/">>

\* f.startswith(prefix)
StartsWith(f, prefix) ==
    Len(f) >= Len(prefix) /\ SubSeq(f, 1, Len(prefix)) = prefix

\* get_git_files(branch, "tips/") for an outcome of git ls-tree that was run
get_git_files(outcome) ==
    IF outcome.rc = 0
    THEN LET lines     == outcome.stdout
             all_files == SelectSeq([i \in 1..Len(lines) |-> Strip(lines[i])],
                                    LAMBDA f : f # <<>>)
         IN  SelectSeq(all_files, LAMBDA f : StartsWith(f, TipsPrefix))
    ELSE <<>>

\* get_file_content_from_branch for an outcome of git show that was run
get_file_content_from_branch(outcome) ==
    IF outcome.rc = 0 THEN outcome.stdout ELSE <<>>

GithubHost == <<"github", ".", "com">>

\* r'github\.com[:/]([^/]+)/([^/\.]+)' anchored at i
RepoMatchAt(url, i) ==
    /\ MatchesAt(url, i, GithubHost)
    /\ i + 3 <= Len(url)
    /\ url[i + 3] \in {":", "/"}
    /\ LET j == FirstAt(url, i + 4, "/")
       IN  /\ j >= i + 5
           /\ j + 1 <= Len(url)
           /\ url[j + 1] \notin {"/", "."}

\* the checks get_github_issues makes of the remote url:
\* 'github.com' in remote_url, then re.search of the expression
IsGithubUrl(url) == \E i \in 1..Len(url) : MatchesAt(url, i, GithubHost)

RepoParsed(url) == \E i \in 1..Len(url) : RepoMatchAt(url, i)

NoException == [exc |-> "none", fn |-> "none"]

Exception(exc, fn) == [exc |-> exc, fn |-> fn]

\* what get_github_issues does for the outcomes of its two commands: the
\* exception it lets escape, or NoException and the list it returns
github_issues_result(remote, gh) ==
    IF remote.rc # 0
    THEN [raised |-> NoException, issues |-> <<>>]
    ELSE LET remote_url == Strip(remote.stdout)
         IN  IF ~IsGithubUrl(remote_url) \/ ~RepoParsed(remote_url)
             THEN [raised |-> NoException, issues |-> <<>>]
             ELSE IF ~gh.found \/ gh.rc # 0
             THEN [raised |-> NoException, issues |-> <<>>]
             ELSE IF ~gh.json
             THEN [raised |-> Exception("JSONDecodeError", "get_github_issues"),
                   issues |-> <<>>]
             ELSE [raised |-> NoException, issues |-> TipIssues(gh.data)]

-----------------------------------------------------------------------------
(* main().                                                                  *)

MainBranch == "origin/main"
DevBranch == "origin/dev"

\* (mutant) every branch parsed with the state draft
BranchStateAllDraft(b) == "draft"

\* the state main() passes to parse_tips_from_branch for each branch
BranchState(b) == IF b = MainBranch THEN "production" ELSE "draft"

\* (mutant) the two updates in the other order: dev overrides main
MergeTipsDevLast(dev, main) == DictUpdate(DictUpdate(<<>>, main), dev)

\* all_tips.update(dev_tips); all_tips.update(main_tips)
MergeTips(dev, main) == DictUpdate(DictUpdate(<<>>, dev), main)

RECURSIVE AddIssuesFrom(_, _, _)
\* the loop that stores the issues under the keys issue_0, issue_1, ...
AddIssuesFrom(d, issues, issue_counter) ==
    IF issue_counter >= Len(issues) THEN d
    ELSE AddIssuesFrom(DictSet(d, IssueKey(issue_counter), issues[issue_counter + 1]),
                       issues, issue_counter + 1)

Init ==
    /\ pc = "list"
    /\ git_installed \in BOOLEAN
    /\ branch = MainBranch
    /\ tip_files = <<>>
    /\ tips = <<>>
    /\ main_tips = <<>>
    /\ dev_tips = <<>>
    /\ github_issues = <<>>
    /\ all_tips = <<>>
    /\ file = <<>>
    /\ raised = NoException
    /\ last_path = <<>>
    /\ last_content = <<>>
    /\ text_in = <<>>
    /\ text_pc = "off"
    /\ text_entry = TipInfo(0, <<>>, <<>>, "none")
    /\ text_out = <<>>

\* parse_tips_from_branch: tips = {} and the call of get_git_files; without the
\* git executable subprocess.run raises FileNotFoundError, which nothing catches
ListFiles ==
    /\ pc = "list"
    /\ IF git_installed
       THEN \E outcome \in LsTreeOutcomes :
               /\ tip_files' = get_git_files(outcome)
               /\ pc' = "loop"
               /\ raised' = raised
       ELSE /\ tip_files' = tip_files
            /\ pc' = "raised"
            /\ raised' = Exception("FileNotFoundError", "get_git_files")
    /\ tips' = <<>>
    /\ UNCHANGED <<git_installed, branch, main_tips, dev_tips, github_issues,
                   all_tips, file, last_path, last_content>>
    /\ UNCHANGED textVars

\* the dict after the body of the loop has run for file_path and its content
TipsAfter(d, content, file_path, state) ==
    IF content # <<>> /\ TipInfoOk(file_path)
    THEN LET info == extract_tip_info(content, file_path)
         IN  DictSet(d, IntKey(info.number),
                     TipInfo(info.number, info.title, info.body, state))
    ELSE d

\* one turn of the loop of parse_tips_from_branch
ParseFile ==
    /\ pc = "loop"
    /\ tip_files # <<>>
    /\ \E outcome \in GitShowOutcomes :
          /\ last_path' = Head(tip_files)
          /\ last_content' = get_file_content_from_branch(outcome)
          /\ tips' = TipsAfter(tips, last_content', last_path', BranchState(branch))
    /\ tip_files' = Tail(tip_files)
    /\ UNCHANGED <<pc, git_installed, branch, main_tips, dev_tips, github_issues,
                   all_tips, file, raised>>
    /\ UNCHANGED textVars

\* parse_tips_from_branch returns; main() goes on to the dev branch or to the issues
ReturnTips ==
    /\ pc = "loop"
    /\ tip_files = <<>>
    /\ IF branch = MainBranch
       THEN /\ main_tips' = tips
            /\ dev_tips' = dev_tips
            /\ branch' = DevBranch
            /\ pc' = "list"
       ELSE /\ main_tips' = main_tips
            /\ dev_tips' = tips
            /\ branch' = branch
            /\ pc' = "issues"
    /\ last_path' = <<>>
    /\ last_content' = <<>>
    /\ UNCHANGED <<git_installed, tip_files, tips, github_issues, all_tips, file,
                   raised>>
    /\ UNCHANGED textVars

\* github_issues = get_github_issues()
FetchIssues ==
    /\ pc = "issues"
    /\ \E remote \in RemoteOutcomes, gh \in GhOutcomes :
          LET r == github_issues_result(remote, gh)
          IN  /\ github_issues' = r.issues
              /\ raised' = r.raised
              /\ pc' = IF r.raised = NoException THEN "combine" ELSE "raised"
    /\ UNCHANGED <<git_installed, branch, tip_files, tips, main_tips, dev_tips,
                   all_tips, file, last_path, last_content>>
    /\ UNCHANGED textVars

\* the two updates of all_tips and the loop that adds the issues
Combine ==
    /\ pc = "combine"
    /\ all_tips' = AddIssuesFrom(MergeTips(dev_tips, main_tips), github_issues, 0)
    /\ pc' = "write"
    /\ UNCHANGED <<git_installed, branch, tip_files, tips, main_tips, dev_tips,
                   github_issues, file, raised, last_path, last_content>>
    /\ UNCHANGED textVars

\* generate_catalogue(all_tips) and the write of CATALOGUE.md
WriteCatalogue ==
    /\ pc = "write"
    /\ file' = generate_catalogue(all_tips)
    /\ pc' = "done"
    /\ UNCHANGED <<git_installed, branch, tip_files, tips, main_tips, dev_tips,
                   github_issues, all_tips, raised, last_path, last_content>>
    /\ UNCHANGED textVars

Next ==
    \/ ListFiles
    \/ ParseFile
    \/ ReturnTips
    \/ FetchIssues
    \/ Combine
    \/ WriteCatalogue

Spec == Init /\ [][Next]_vars

-----------------------------------------------------------------------------
(* The text functions on their own: one input text is made a tip file's     *)
(* entry (extract_tip_info) or a request item's entry (the loop of          *)
(* get_github_issues), and the entry is rendered by generate_catalogue.     *)

\* the most fragments an input text is composed of
MaxFrags == 3

\* the pieces the input texts are composed of
Fragments ==
    { <<"w">>, <<" ">>, <<"\n">>, <<"|">>, <<"\\">>, <<BackQuote>>,
      Fence \o <<"py">>,
      <<"<", "img", " ", "src", ">">>,
      <<"<", "video", ">", "v", "<", "/", "video", ">">>,
      <<"<", "audio", ">", "v", "<", "/", "audio", ">">>,
      <<"!", "[", "x", "]", "(", "y", ")">>,
      <<"<", "h1", ">", "\n", " ", "A", " ", " ", "B", "\n", "<", "/", "h1", ">">>,
      <<"<", "H1", ">", "C", "<", "/", "H1", ">">> }

\* n further words, each after one space
Padding(n) == [i \in 1..(2 * n) |-> IF i % 2 = 1 THEN " " ELSE "w"]

\* the input texts: up to MaxFrags fragments, and up to MaxFrags - 1 fragments
\* followed by as many words as the word limit
TextInputs ==
    {Flatten(fs) : fs \in SeqsUpTo(Fragments, MaxFrags)}
    \cup {Flatten(fs) \o Padding(WordLimit) : fs \in SeqsUpTo(Fragments, MaxFrags - 1)}

\* the path of the tip file the input text is read from
TextPath == <<"tips", "/", "7", ".", "html">>

\* the request item whose body the input text is
TextIssue(text) ==
    Issue(TipRequestPrefix \o <<" ", "Add", " ", "dark", " ", "mode">>, FALSE, text)

InitText ==
    /\ text_in \in TextInputs
    /\ text_pc = "input"
    /\ text_entry = TipInfo(0, <<>>, <<>>, "none")
    /\ text_out = <<>>
    /\ pc = "off"
    /\ git_installed = TRUE
    /\ branch = MainBranch
    /\ tip_files = <<>>
    /\ tips = <<>>
    /\ main_tips = <<>>
    /\ dev_tips = <<>>
    /\ github_issues = <<>>
    /\ all_tips = <<>>
    /\ file = <<>>
    /\ raised = NoException
    /\ last_path = <<>>
    /\ last_content = <<>>

\* parse_tips_from_branch's entry for the file TextPath with content text_in
\* (an empty content is skipped and makes no entry)
ExtractTip ==
    /\ text_pc = "input"
    /\ text_in # <<>>
    /\ text_entry' = TipsAfter(<<>>, text_in, TextPath, "production")[1].val
    /\ text_pc' = "tip"
    /\ UNCHANGED <<text_in, text_out>>
    /\ UNCHANGED mainVars

\* get_github_issues' entry for the item TextIssue(text_in)
ExtractIssue ==
    /\ text_pc = "input"
    /\ text_entry' = TipIssues(<<TextIssue(text_in)>>)[1]
    /\ text_pc' = "issue"
    /\ UNCHANGED <<text_in, text_out>>
    /\ UNCHANGED mainVars

\* generate_catalogue for the one entry, under the key main() gives it
Render ==
    /\ text_pc \in {"tip", "issue"}
    /\ text_out = <<>>
    /\ text_out' = generate_catalogue(
           <<[key |-> IF text_pc = "tip" THEN IntKey(text_entry.number) ELSE IssueKey(0),
              val |-> text_entry]>>)
    /\ UNCHANGED <<text_in, text_pc, text_entry>>
    /\ UNCHANGED mainVars

NextText ==
    \/ ExtractTip
    \/ ExtractIssue
    \/ Render

SpecText == InitText /\ [][NextText]_vars

-----------------------------------------------------------------------------
(* Reading the catalogue back.                                              *)

\* the lines of a text that ends each line with '\n'
Lines(text) ==
    LET nl == Positions([i \in 1..Len(text) |-> text[i] = "\n"])
    IN  [r \in 1..Len(nl) |->
            SubSeq(text, IF r = 1 THEN 1 ELSE nl[r - 1] + 1, nl[r] - 1)]

\* the number of backslashes that stand directly before position i
BackslashesBefore(line, i) ==
    Cardinality({k \in 1..(i - 1) : \A m \in k..(i - 1) : line[m] = "\\"})

\* the positions of the pipes of a line that no backslash escapes: a backslash
\* escapes the character after it, be it a pipe or another backslash
UnescapedPipes(line) ==
    {i \in 1..Len(line) : line[i] = "|" /\ BackslashesBefore(line, i) % 2 = 0}

\* the identifier column of a table row: what stands between its first two pipes
IdColumn(line) == Strip(SubSeq(line, 2, FirstAt(line, 2, "|") - 1))

\* the state column of a table row: the last cell
StateColumn(line) == line[Len(line) - 2]

RowNumber(line) == ParseIntUpTo(IdColumn(line), Len(IdColumn(line)))

\* the numbers that are keys of a dict
NumberKeys(d) == {k.val : k \in {x \in DictKeys(d) : x.int}}

\* the data rows of the written catalogue
DataRows == LET L == Lines(file) IN SubSeq(L, 5, Len(L))

NumberedRows == SelectSeq(DataRows, LAMBDA l : IdColumn(l) # <<>>)

-----------------------------------------------------------------------------
(* The claims.                                                              *)

\* C1: once main() has combined the mappings, every identifier present on main
\* and on dev holds the whole entry of main (title, body and state), every
\* identifier present on dev alone holds the entry of dev, and the written
\* catalogue has that entry's row.
C1_MainOverridesDev ==
    pc \in {"write", "done"} =>
        \A n \in NumberKeys(main_tips) \cup NumberKeys(dev_tips) :
            LET expected == IF n \in NumberKeys(main_tips)
                            THEN DictGet(main_tips, IntKey(n))
                            ELSE DictGet(dev_tips, IntKey(n))
            IN  /\ DictGet(all_tips, IntKey(n)) = expected
                /\ pc = "done" =>
                      \E i \in 1..Len(DataRows) : DataRows[i] = NumberedRow(n, expected)

\* C1's scenario: main = {1: A}, dev = {1: B, 2: C}, written as the rows
\* 1 / A / production and 2 / C / draft
C1_Witness ==
    /\ pc = "done"
    /\ NumberKeys(main_tips) = {1}
    /\ NumberKeys(dev_tips) = {1, 2}
    /\ DictGet(main_tips, IntKey(1)).title = <<"A">>
    /\ DictGet(dev_tips, IntKey(1)).title = <<"B">>
    /\ DictGet(dev_tips, IntKey(2)).title = <<"C">>
    /\ Len(NumberedRows) = 2
    /\ NumberedRows[1] = NumberedRow(1, TipInfo(1, <<"A">>, <<"A", " ", "w">>, "production"))
    /\ NumberedRows[2] = NumberedRow(2, TipInfo(2, <<"C">>, <<"C", " ", "w">>, "draft"))

\* C3: no outcome of the git commands of get_git_files and
\* get_file_content_from_branch ends the run with an exception.
C3_GitFailureNeverRaises ==
    raised.fn \notin {"get_git_files", "get_file_content_from_branch"}

\* C4: no outcome of the steps of get_github_issues ends the run with an
\* exception.
C4_IssueFailureNeverRaises == raised.fn # "get_github_issues"

\* <digits>.<extension> as the whole name: digits, a dot, an extension without
\* a further dot
NameHasForm(name) ==
    LET d == SkipWhileDigit(name, 1) - 1
    IN  /\ d >= 1
        /\ d + 2 <= Len(name)
        /\ name[d + 1] = "."
        /\ \A k \in (d + 2)..Len(name) : name[k] \notin {".", "/"}

\* C6: a turn of the loop for a file whose name is not of the form
\* <digits>.<extension> adds no entry and changes none.
C6_NonMatchingNameSkipped ==
    [][(pc = "loop" /\ tip_files # <<>> /\ ~NameHasForm(PathName(Head(tip_files))))
          => tips' = tips]_vars

\* C8: the written catalogue is the four header lines, then the numbered rows
\* in strictly ascending order of identifier, then one row with a blank
\* identifier for each requested item, in the order of the tracker's answer.
C8_RowOrder ==
    pc = "done" =>
        LET L == Lines(file)
            k == Cardinality(NumberKeys(all_tips))
            m == Len(github_issues)
        IN  /\ Len(L) = 4 + k + m
            /\ SubSeq(L, 1, 4) = HeaderLines
            /\ \A i \in 1..k :
                  /\ IdColumn(L[4 + i]) # <<>>
                  /\ RowNumber(L[4 + i]) \in NumberKeys(all_tips)
                  /\ i > 1 => RowNumber(L[4 + i - 1]) < RowNumber(L[4 + i])
            /\ \A j \in 1..m :
                  /\ IdColumn(L[4 + k + j]) = <<>>
                  /\ L[4 + k + j] = IssueRow(github_issues[j])

\* C8's case: two numbered entries inserted in descending order and two
\* requested items, the same item twice
C8_Witness ==
    /\ pc = "done"
    /\ Len(NumberedTips(all_tips)) = 2
    /\ NumberedTips(all_tips)[1].key.val > NumberedTips(all_tips)[2].key.val
    /\ Len(github_issues) = 2
    /\ github_issues[1] = github_issues[2]
    /\ Len(DataRows) = 4

\* the entries of a dict of tips
DictValues(d) == {d[i].val : i \in 1..Len(d)}

\* C10: the numbered rows of the written catalogue are one row for each
\* identifier extracted from main or from dev, no identifier in two rows, and a
\* row's state is production exactly when the identifier was extracted from a
\* file of main, and draft otherwise.  Within one branch every entry carries
\* the state of that branch, and a file that is listed with content that is not
\* empty and yields an identifier replaces whatever entry an earlier file of
\* the branch gave that identifier: the last listed file wins.
C10_OneRowPerIdentifier ==
    /\ \A t \in DictValues(main_tips) : t.state = "production"
    /\ \A t \in DictValues(dev_tips) : t.state = "draft"
    /\ (pc = "loop" /\ last_content # <<>> /\ TipInfoOk(last_path)) =>
          LET info == extract_tip_info(last_content, last_path)
          IN  /\ IntKey(info.number) \in DictKeys(tips)
              /\ DictGet(tips, IntKey(info.number)) =
                    TipInfo(info.number, info.title, info.body,
                            IF branch = MainBranch THEN "production" ELSE "draft")
    /\ pc = "done" =>
          LET rows == NumberedRows
          IN  /\ {RowNumber(rows[i]) : i \in 1..Len(rows)}
                    = NumberKeys(main_tips) \cup NumberKeys(dev_tips)
              /\ \A i, j \in 1..Len(rows) :
                    RowNumber(rows[i]) = RowNumber(rows[j]) => i = j
              /\ \A i \in 1..Len(rows) :
                    StateColumn(rows[i]) =
                        IF RowNumber(rows[i]) \in NumberKeys(main_tips)
                        THEN "production" ELSE "draft"

\* C10's case: identifier 1 extracted on both branches with different
\* headings, identifier 2 on dev alone
C10_Witness ==
    /\ pc = "done"
    /\ NumberKeys(main_tips) = {1}
    /\ NumberKeys(dev_tips) = {1, 2}
    /\ DictGet(main_tips, IntKey(1)).title # DictGet(dev_tips, IntKey(1)).title
    /\ Len(NumberedRows) = 2
    /\ StateColumn(NumberedRows[1]) = "production"
    /\ StateColumn(NumberedRows[2]) = "draft"

\* whether a summary ends with the ellipsis marker
Truncated(body) == body # <<>> /\ body[Len(body)] = "..."

\* the number of matches a scan finds, ends[i] being the end of the match at i
MatchCount(ends) ==
    Cardinality(LeftmostFrom(ends, {i \in 1..Len(ends) : ends[i] > 0}, 1))

\* the media elements of a text, by kind
MediaCount(text, kind) ==
    IF kind = "image"
    THEN MatchCount([i \in 1..Len(text) |-> OpenTagEnd(text, i, {"img"})])
         + MatchCount([i \in 1..Len(text) |-> MarkdownImageEnd(text, i)])
    ELSE MatchCount([i \in 1..Len(text) |-> ElementEnd(text, i, {kind})])

\* the placeholder markers of a summary, by kind, in either spelling
MarkCount(body, kind) ==
    Cardinality({i \in 1..Len(body) :
        \/ body[i] = "&lt;" \o kind \o "&gt;"
        \/ MatchesAt(body, i, <<"<", kind, ">">>)})

\* C2: the summary of a tip file or of a request item holds no media element
\* verbatim and one placeholder marker for each media element of the input
\* (stated for the summaries that are not cut at the word limit).
C2_MediaReplaced ==
    (text_pc \in {"tip", "issue"} /\ ~Truncated(text_entry.body)) =>
        \A kind \in {"image", "video", "audio"} :
            /\ MediaCount(text_entry.body, kind) = 0
            /\ MarkCount(text_entry.body, kind) = MediaCount(text_in, kind)

\* the text of a path after all of its cleaning steps, not cut
CleanedText(path, text) ==
    IF path = "tip" THEN filter_media_tags(CleanHtml(text)) ELSE IssueBodyFiltered(text)

\* C5: when the cleaned text has more than 50 words the summary is its first 50
\* words joined by single spaces and the ellipsis marker; otherwise the summary
\* has all of its words and no ellipsis marker.
C5_WordBudget ==
    text_pc \in {"tip", "issue"} =>
        LET words == Split(CleanedText(text_pc, text_in))
        IN  IF Len(words) > WordLimit
            THEN text_entry.body = Join(SubSeq(words, 1, WordLimit)) \o Ellipsis
            ELSE Split(text_entry.body) = words /\ ~Truncated(text_entry.body)

\* C7: the catalogue of one entry has one data row, on one line, with as many
\* unescaped pipes as the header row.
C7_RowHasHeaderColumns ==
    text_out # <<>> =>
        LET L == Lines(text_out)
        IN  /\ Len(L) = 5
            /\ Cardinality(UnescapedPipes(L[5])) = Cardinality(UnescapedPipes(L[3]))

\* C9: the title of a tip file is the collapsed text of its first h1 heading,
\* the tag in either letter case, and the placeholder title without a heading.
C9_TitleIsHeadingText ==
    text_pc = "tip" => text_entry.title = HeadingTitle(text_in, {"h1", "H1"})

====
